---- MODULE Spec2Model ----
(***************************************************************************)
(* Walkability pipeline of GNN_Test1(Simple_GNN).ipynb: geometry           *)
(* validation, neighborhood enrichment, per-neighborhood subgraph          *)
(* construction with a pickle cache keyed by LIE_NAME, the rule-based      *)
(* scorer, the GNN stage and main()'s try/except.                          *)
(*                                                                         *)
(* Geometry is one-dimensional: a polygon or a line is a closed interval   *)
(* [lo, hi] with lo < hi, a point is an interval with lo = hi.  Scores are *)
(* fixed point numbers in thousandths (1.0 is 1000), percentages are       *)
(* integers and ndvi_mean is in tenths (1.0 is 10), so that every product  *)
(* and quotient of the scorer is exact.                                    *)
(***************************************************************************)
EXTENDS Integers, Sequences, FiniteSets, TLC

VARIABLES
    layers,              \* the input files: the five feature layers as stored
    cache,               \* SUBGRAPH_DIR: LIE_NAME -> the file subgraph_<LIE_NAME>.pkl
    pc,                  \* position of main(): idle, build, score, gnn, map, done, failed
    data,                \* what load_and_prepare_data returned to this run
    idx,                 \* build_graph's loop index (1-based here)
    subgraphs,           \* build_graph's dict: LIE_NAME -> subgraph_data
    road_network_nodes,  \* build_graph's list of road node records
    stdout,              \* the last line main() printed
    lastCall,            \* history: path and outcome of the latest loop iteration
    lastRet,             \* history: LIE_NAME -> what the latest iteration for it returned
    callsSince,          \* history: LIE_NAME -> returned iterations since its file was last removed (capped at 2)
    lastCached,          \* history: LIE_NAME -> subgraph last built and cached from the current layers
    nodes_df,            \* the node table handed to compute_walkability_scores (scorer specification)
    workers              \* the builders racing for one cache file (race specification): worker -> its position and locals

vars == <<layers, cache, pc, data, idx, subgraphs, road_network_nodes, stdout,
          lastCall, lastRet, callsSince, lastCached, nodes_df, workers>>

-----------------------------------------------------------------------------
(* Bounds of the model. *)

\* rows of the neighborhood table
NumRows == 2
\* largest coordinate, in hundreds of length units, of the construction specification
MaxCoord == 6
\* most rows a failing pickle.dump has written before it raises
MaxWritten == 1
\* tree_count values of the scorer specification: 0, 50, .. , 50 * MaxTreeK
MaxTreeK == 4
\* transit_count values of the scorer specification: 0, 10, .. , 10 * MaxTransitK
MaxTransitK == 4
\* stored rows of the road layer in the road specification
NumRoads == 3

-----------------------------------------------------------------------------
(* Helpers. *)

Min(a, b) == IF a <= b THEN a ELSE b

RECURSIVE Concat(_)
Concat(ss) == IF ss = <<>> THEN <<>> ELSE Head(ss) \o Concat(Tail(ss))

\* the positions i, i + 1, .. of the boolean sequence mask that hold TRUE, in order
RECURSIVE Positions(_, _)
Positions(mask, i) ==
    IF i > Len(mask) THEN <<>>
    ELSE (IF mask[i] THEN <<i>> ELSE <<>>) \o Positions(mask, i + 1)

\* row[c] = v on a record, the column added when it is missing
set_value(row, c, v) == [k \in DOMAIN row \cup {c} |-> IF k = c THEN v ELSE row[k]]

\* d[k] = v on a dict
Put(d, k, v) == [y \in DOMAIN d \cup {k} |-> IF y = k THEN v ELSE d[y]]

EmptyDict == <<>>

\* a missing float: a value no attribute takes
NaN == 0 - 1000000
None == "None"

-----------------------------------------------------------------------------
(* Geometry predicates (shapely), on intervals. *)

Geom(lo, hi) == [lo |-> lo, hi |-> hi]

\* neigh_geom.buffer(buffer_distance)
buffer_distance == 200
buffer(g, d) == [lo |-> g.lo - d, hi |-> g.hi + d]

\* a.within(b): no point of a outside b, and the interiors meet; the interior
\* of a point is the point, the interior of an interval is the open interval
within(a, b) ==
    /\ b.lo <= a.lo
    /\ a.hi <= b.hi
    /\ (a.lo = a.hi => (b.lo < a.lo /\ a.lo < b.hi))

\* a.intersects(b): the two closed sets share a point
intersects(a, b) == a.lo <= b.hi /\ b.lo <= a.hi

\* cuspatial.point_in_polygon: the point lies inside the polygon
point_in_polygon(p, g) == g.lo < p.lo /\ p.lo < g.hi

-----------------------------------------------------------------------------
(* Stage 1: validation and enrichment. *)

\* gdf[gdf.geometry.is_valid].reset_index(drop=True): the valid rows, densely
\* reindexed in their order
validate_geometries(gdf) == SelectSeq(gdf, LAMBDA r : r.valid)

count_in(points, g) ==
    Cardinality({i \in 1..Len(points) : point_in_polygon(points[i].geometry, g)})

\* variant: the body of the loop without its validity test
enrich_step_unguarded(neigh, i, trees, transit) ==
    [neigh EXCEPT ![i] =
        set_value(set_value(neigh[i], "tree_count", count_in(trees, neigh[i].geometry)),
                  "transit_count", count_in(transit, neigh[i].geometry))]

\* the body of the tree_count / transit_count loop, at index i: geo_valid is
\* is_valid of the geometry neighborhoods_geo.iloc[idx] hands back
enrich_step(neigh, i, trees, transit) ==
    [neigh EXCEPT ![i] =
        IF neigh[i].geo_valid
        THEN set_value(set_value(neigh[i], "tree_count",
                                 count_in(trees, neigh[i].geometry)),
                       "transit_count", count_in(transit, neigh[i].geometry))
        ELSE neigh[i]]

\* the iterations i, i + 1, .. of the loop
RECURSIVE enrich_from(_, _, _, _)
enrich_from(neigh, i, trees, transit) ==
    IF i > Len(neigh) THEN neigh
    ELSE enrich_from(enrich_step(neigh, i, trees, transit), i + 1, trees, transit)

\* the tree_count / transit_count loop over the neighborhood rows
enrich(neigh, trees, transit) == enrich_from(neigh, 1, trees, transit)

\* roads_gdf['length_m'] = roads_gdf.geometry.length
with_length_m(roads) ==
    [i \in 1..Len(roads) |->
        set_value(roads[i], "length_m", roads[i].geometry.hi - roads[i].geometry.lo)]

\* trees_gdf[trees_gdf['subtype'] == 'tree']
only_trees(gdf) == SelectSeq(gdf, LAMBDA r : r.subtype = "tree")

\* transit_gdf[class in (stop_position, bus_stop)][geom_type == 'Point']
only_stops(gdf) ==
    SelectSeq(gdf, LAMBDA r : /\ r.class \in {"stop_position", "bus_stop"}
                              /\ r.geometry.lo = r.geometry.hi)

\* load_and_prepare_data up to the two count columns set to 0
prepared(files) ==
    LET neigh == validate_geometries(files.neighborhoods)
    IN  [neighborhoods |-> [i \in 1..Len(neigh) |->
                               set_value(set_value(neigh[i], "tree_count", 0),
                                         "transit_count", 0)],
         buildings     |-> validate_geometries(files.buildings),
         roads         |-> with_length_m(validate_geometries(files.roads)),
         trees         |-> validate_geometries(only_trees(files.trees)),
         transit       |-> validate_geometries(only_stops(files.transit))]

load_and_prepare_data(files) ==
    LET p == prepared(files)
    IN  [p EXCEPT !.neighborhoods = enrich(p.neighborhoods, p.trees, p.transit)]

-----------------------------------------------------------------------------
(* Stage 2: construction of one subgraph (the cache-miss path). *)

\* variant: all_nodes is not emptied, it keeps the road nodes emitted so far
all_nodes_kept == road_network_nodes

\* all_nodes = [] at the top of each iteration
all_nodes_init == <<>>

\* variant: the node dict already carries a score
neighborhood_node_scored(row) ==
    [vertex |-> <<"neighborhood", row.LIE_NAME>>,
     type |-> "neighborhood",
     lie_name |-> row.LIE_NAME,
     population |-> row.population,
     land_use_residential_percent |-> row.land_use_residential_percent,
     land_use_commercial_percent |-> row.land_use_commercial_percent,
     land_use_education_percent |-> row.land_use_education_percent,
     ndvi_mean |-> row.ndvi_mean,
     tree_count |-> row.tree_count,
     transit_count |-> row.transit_count,
     walkability_rule |-> 0]

neighborhood_node(row) ==
    [vertex |-> <<"neighborhood", row.LIE_NAME>>,
     type |-> "neighborhood",
     lie_name |-> row.LIE_NAME,
     population |-> row.population,
     land_use_residential_percent |-> row.land_use_residential_percent,
     land_use_commercial_percent |-> row.land_use_commercial_percent,
     land_use_education_percent |-> row.land_use_education_percent,
     ndvi_mean |-> row.ndvi_mean,
     tree_count |-> row.tree_count,
     transit_count |-> row.transit_count]

\* the four selections against the buffer; each is the list of selected row
\* indices (0-based, as iterrows yields them)
building_selected(g, buf) == within(g, buf)
\* variant: roads selected by containment, like the other layers
road_selected_within(g, buf) == within(g, buf)
road_selected(g, buf) == intersects(g, buf)
point_selected(g, buf) == within(g, buf)

\* gdf[mask]: the row labels (0-based) the boolean mask keeps, in order
relevant(mask) ==
    LET pos == Positions(mask, 1)
    IN  [k \in 1..Len(pos) |-> pos[k] - 1]

relevant_buildings(d, buf) ==
    relevant([k \in 1..Len(d.buildings) |-> building_selected(d.buildings[k].geometry, buf)])
relevant_roads(d, buf) ==
    relevant([k \in 1..Len(d.roads) |-> road_selected(d.roads[k].geometry, buf)])
relevant_trees(d, buf) ==
    relevant([k \in 1..Len(d.trees) |-> point_selected(d.trees[k].geometry, buf)])
relevant_transit(d, buf) ==
    relevant([k \in 1..Len(d.transit) |-> point_selected(d.transit[k].geometry, buf)])

building_nodes(d, buf) ==
    LET sel == relevant_buildings(d, buf)
    IN  [k \in 1..Len(sel) |->
            [vertex |-> <<"building", sel[k]>>,
             type |-> "building",
             building_type |-> d.buildings[sel[k] + 1].building,
             area_m2 |-> d.buildings[sel[k] + 1].area_m2]]

\* road_points: two (identity, point) pairs per selected LineString
road_points(d, buf) ==
    LET sel == relevant_roads(d, buf)
    IN  Concat([k \in 1..Len(sel) |->
            IF d.roads[sel[k] + 1].geom_type = "LineString"
            THEN << [node_id |-> <<"road", "start", sel[k]>>,
                     point |-> d.roads[sel[k] + 1].geometry.lo],
                    [node_id |-> <<"road", "end", sel[k]>>,
                     point |-> d.roads[sel[k] + 1].geometry.hi] >>
            ELSE <<>>])

\* variant: the class and length_m are read at the position of the pair in
\* road_points
road_nodes_by_position(d, buf) ==
    LET rp == road_points(d, buf)
    IN  [k \in 1..Len(rp) |->
            LET r_idx == (k - 1) \div 2
            IN  [vertex |-> rp[k].node_id,
                 type |-> "road",
                 road_class |-> d.roads[r_idx + 1].class,
                 length_m |-> d.roads[r_idx + 1].length_m]]

\* r_idx = int(node_id.split('_')[2]); the class and length_m are read back
\* from roads_gdf by position
road_nodes(d, buf) ==
    LET rp == road_points(d, buf)
    IN  [k \in 1..Len(rp) |->
            LET r_idx == rp[k].node_id[3]
            IN  [vertex |-> rp[k].node_id,
                 type |-> "road",
                 road_class |-> d.roads[r_idx + 1].class,
                 length_m |-> d.roads[r_idx + 1].length_m]]

tree_nodes(d, buf) ==
    LET sel == relevant_trees(d, buf)
    IN  [k \in 1..Len(sel) |-> [vertex |-> <<"tree", sel[k]>>, type |-> "tree"]]

transit_nodes(d, buf) ==
    LET sel == relevant_transit(d, buf)
    IN  [k \in 1..Len(sel) |->
            [vertex |-> <<"transit", sel[k]>>,
             type |-> "transit",
             class |-> d.transit[sel[k] + 1].class]]

\* variant: the neighborhood node appended after the feature nodes
build_subgraph_nbhd_last(d, i) ==
    LET row == d.neighborhoods[i]
        buf == buffer(row.geometry, buffer_distance)
    IN  [nodes |-> all_nodes_init
                   \o building_nodes(d, buf)
                   \o road_nodes(d, buf)
                   \o tree_nodes(d, buf)
                   \o transit_nodes(d, buf)
                   \o <<neighborhood_node(row)>>,
         edges |-> None]

\* the body of the loop from "G_sub = ..." to "subgraph_data = ..."
build_subgraph(d, i) ==
    LET row == d.neighborhoods[i]
        buf == buffer(row.geometry, buffer_distance)
    IN  [nodes |-> all_nodes_init
                   \o <<neighborhood_node(row)>>
                   \o building_nodes(d, buf)
                   \o road_nodes(d, buf)
                   \o tree_nodes(d, buf)
                   \o transit_nodes(d, buf),
         edges |-> None]

-----------------------------------------------------------------------------
(* The cache files. *)

NoFile == [exists |-> FALSE, complete |-> FALSE, rows |-> <<>>, edges |-> None]

\* pickle.dump(subgraph_data, f) run to its end
pickle_dump(sg) ==
    [exists |-> TRUE, complete |-> TRUE, rows |-> sg.nodes, edges |-> sg.edges]

\* the file left by a dump that raised after writing the first n rows
truncated_dump(sg, n) ==
    [exists |-> TRUE, complete |-> FALSE, rows |-> SubSeq(sg.nodes, 1, n), edges |-> None]

\* variant: the existence test looks at another path and never succeeds
os_path_exists_never(dir, name) == FALSE
\* variant: a file counts only when it can be loaded
os_path_exists_loadable(dir, name) == dir[name].exists /\ dir[name].complete

\* os.path.exists(subgraph_path)
os_path_exists(dir, name) == dir[name].exists

\* a stretch of the file no writer has filled: a second open(path, 'wb')
\* emptied the file and the first writer went on writing at its own offset
Hole == [type |-> "hole"]

\* pickle.load(f) raises on a file that ends before the pickle does, or that
\* holds a stretch that is no pickle
load_raises(file) == ~file.complete \/ \E k \in 1..Len(file.rows) : file.rows[k] = Hole
pickle_load(file) == [nodes |-> file.rows, edges |-> file.edges]

-----------------------------------------------------------------------------
(* Stage 3: the rule-based scorer.  Scores are in thousandths. *)

fillna(v, d) == IF v = NaN THEN d ELSE v

clip_upper(v, u) == Min(v, u)

\* (residential * 0.4 + commercial * 0.3 + education * 0.2) / 100
land_use_score(residential, commercial, education) ==
    (residential * 400 + commercial * 300 + education * 200) \div 100

\* ndvi * 0.5, ndvi in tenths
ndvi_score(ndvi) == (ndvi * 100 * 5) \div 10

\* variant: the clip is left out
tree_score_unclipped(tree_count) == (((tree_count * 1000) \div 100) * 2) \div 10

\* (tree_count / 100).clip(upper=1.0) * 0.2
tree_score(tree_count) == (clip_upper((tree_count * 1000) \div 100, 1000) * 2) \div 10

\* variant: the divisor of the tree score is used
transit_score_per_100(transit_count) ==
    (clip_upper((transit_count * 1000) \div 100, 1000) * 2) \div 10

\* (transit_count / 20).clip(upper=1.0) * 0.2
transit_score(transit_count) == (clip_upper((transit_count * 1000) \div 20, 1000) * 2) \div 10

\* (land_use_score + ndvi_score * 0.4 + tree_score + transit_score).clip(upper=1.0)
walkability(row) ==
    clip_upper(land_use_score(row.land_use_residential_percent,
                              row.land_use_commercial_percent,
                              row.land_use_education_percent)
               + (ndvi_score(fillna(row.ndvi_mean, 0)) * 4) \div 10
               + tree_score(row.tree_count)
               + transit_score(row.transit_count),
               1000)

has_column(df, c) == \E i \in 1..Len(df) : c \in DOMAIN df[i]

\* df[c] = v when the column is missing: every row gets the value
add_column(df, c, v) ==
    [i \in 1..Len(df) |->
        IF c \in DOMAIN df[i] THEN df[i]
        ELSE [k \in DOMAIN df[i] \cup {c} |-> IF k = c THEN v ELSE df[i][k]]]

compute_walkability_scores(df) ==
    LET with_col == IF has_column(df, "walkability_rule") THEN df
                    ELSE add_column(df, "walkability_rule", 0)
    IN  IF \A i \in 1..Len(df) : df[i].type # "neighborhood"
        THEN with_col
        ELSE [i \in 1..Len(df) |->
                 IF df[i].type = "neighborhood"
                 THEN set_value(with_col[i], "walkability_rule", walkability(df[i]))
                 ELSE with_col[i]]

\* nodes_df[nodes_df['type'] == 'neighborhood']['walkability_rule']
neighborhood_walkability(df) ==
    LET pos == Positions([i \in 1..Len(df) |-> df[i].type = "neighborhood"], 1)
    IN  [k \in 1..Len(pos) |-> df[pos[k]].walkability_rule]

calculate_walkability(sgs) ==
    [n \in DOMAIN sgs |->
        [sgs[n] EXCEPT !.nodes = compute_walkability_scores(sgs[n].nodes)]]

\* neighborhoods_gdf.loc[LIE_NAME == lie_name, 'walkability_rule'] = value
propagate_scores(neigh, sgs) ==
    [i \in 1..Len(neigh) |->
        IF neigh[i].LIE_NAME \in DOMAIN sgs
           /\ neighborhood_walkability(sgs[neigh[i].LIE_NAME].nodes) # <<>>
        THEN set_value(neigh[i], "walkability_rule",
                       neighborhood_walkability(sgs[neigh[i].LIE_NAME].nodes)[1])
        ELSE neigh[i]]

-----------------------------------------------------------------------------
(* Stage 4: the GNN.  The edge index is empty, so the two GCNConv layers    *)
(* are a function of each node's own six features; the trained weights are  *)
(* whatever the optimiser reached, a choice among GnnModels.                *)

feature_cols == {"land_use_residential_percent", "land_use_commercial_percent",
                 "land_use_education_percent", "ndvi_mean", "tree_count",
                 "transit_count"}

\* nodes_df[feature_cols].fillna(0): a missing or NaN feature is 0
feature(row, c) == IF c \in DOMAIN row THEN fillna(row[c], 0) ELSE 0

GnnModels == {[bias |-> b, gain |-> g] : b \in {0, 500}, g \in {0, 1}}

forward(model, row) ==
    model.bias + model.gain * (feature(row, "land_use_residential_percent")
                               + feature(row, "tree_count"))

predict_walkability(sgs, model) ==
    [n \in DOMAIN sgs |->
        [sgs[n] EXCEPT !.nodes =
            [i \in 1..Len(sgs[n].nodes) |->
                set_value(sgs[n].nodes[i], "walkability_gnn",
                          forward(model, sgs[n].nodes[i]))]]]

-----------------------------------------------------------------------------
(* The input files of the pipeline specification. *)

Names == {"A", "B"}

NbhdRow(name, pop, res, com, edu, ndvi, lo, hi) ==
    [LIE_NAME |-> name, population |-> pop,
     land_use_residential_percent |-> res, land_use_commercial_percent |-> com,
     land_use_education_percent |-> edu, ndvi_mean |-> ndvi,
     geometry |-> Geom(lo, hi), valid |-> TRUE, geo_valid |-> TRUE]

\* two rows share the name A; B has no ndvi
NbhdPool ==
    { NbhdRow("A", 1000, 100, 0, 0, 0, 1000, 1200),
      NbhdRow("A", 2000, 0, 50, 0, -10, 1100, 1300),
      NbhdRow("B", 500, 40, 40, 20, NaN, 2000, 2200) }

Building(kind, area, lo, hi, ok) ==
    [building |-> kind, area_m2 |-> area, geometry |-> Geom(lo, hi), valid |-> ok]
Road(class, gt, lo, hi) ==
    [class |-> class, geom_type |-> gt, geometry |-> Geom(lo, hi), valid |-> TRUE]
Land(subtype, x) == [subtype |-> subtype, geometry |-> Geom(x, x), valid |-> TRUE]
Tree(x) == Land("tree", x)
Transit(class, x) == [class |-> class, geometry |-> Geom(x, x), valid |-> TRUE]

FeaturePool ==
    { [buildings |-> << Building("house", 80, 850, 950, TRUE) >>,
       roads     |-> << Road("residential", "LineString", 1300, 1900) >>,
       trees     |-> << Tree(1100) >>,
       transit   |-> << Transit("bus_stop", 2100) >>],
      [buildings |-> << Building("shed", 10, 900, 1000, FALSE),
                        Building("house", 80, 850, 950, TRUE),
                        Building("school", 300, 2050, 2150, TRUE) >>,
       roads     |-> << Road("residential", "LineString", 1300, 1900) >>,
       trees     |-> << Land("grass", 1050), Tree(1100), Tree(1150) >>,
       transit   |-> << Transit("station", 2050), Transit("bus_stop", 2100) >>] }

LayerWorlds ==
    { [neighborhoods |-> n, buildings |-> f.buildings, roads |-> f.roads,
       trees |-> f.trees, transit |-> f.transit] :
      n \in [1..NumRows -> NbhdPool], f \in FeaturePool }

NoData == [neighborhoods |-> <<>>, buildings |-> <<>>, roads |-> <<>>,
           trees |-> <<>>, transit |-> <<>>]

\* no subgraph: a built subgraph has at least its neighborhood node
NoSubgraph == [nodes |-> <<>>, edges |-> None]

NoCall == [path |-> "none", name |-> None, outcome |-> "none", rebuilt |-> FALSE]

-----------------------------------------------------------------------------
(* The pipeline: main() run again and again over one SUBGRAPH_DIR. *)

Init ==
    /\ layers \in LayerWorlds
    /\ cache = [n \in Names |-> NoFile]
    /\ pc = "idle"
    /\ data = NoData
    /\ idx = 0
    /\ subgraphs = EmptyDict
    /\ road_network_nodes = <<>>
    /\ stdout = ""
    /\ lastCall = NoCall
    /\ lastRet = [n \in Names |-> NoSubgraph]
    /\ callsSince = [n \in Names |-> 0]
    /\ lastCached = [n \in Names |-> NoSubgraph]
    /\ nodes_df = <<>>
    /\ workers = <<>>

BetweenRuns == pc \in {"idle", "done", "failed"}

\* main() up to the first iteration of build_graph's loop
StartRun ==
    /\ BetweenRuns
    /\ data' = load_and_prepare_data(layers)
    /\ subgraphs' = EmptyDict
    /\ road_network_nodes' = <<>>
    /\ idx' = 1
    /\ pc' = "build"
    /\ stdout' = "Stage 2: Building graph network..."
    /\ lastCall' = NoCall
    /\ UNCHANGED <<layers, cache, lastRet, callsSince, lastCached, nodes_df, workers>>

InLoop == pc = "build" /\ idx <= Len(data.neighborhoods)

lie_name == data.neighborhoods[idx].LIE_NAME

\* except Exception as e: print(...); the locals of main() and build_graph are gone
Raise ==
    /\ pc' = "failed"
    /\ stdout' = "Error during analysis"
    /\ data' = NoData
    /\ subgraphs' = EmptyDict
    /\ road_network_nodes' = <<>>
    /\ idx' = 0

Returned(name, sg) ==
    /\ lastRet' = [lastRet EXCEPT ![name] = sg]
    /\ callsSince' = [callsSince EXCEPT ![name] = Min(@ + 1, 2)]

\* the cache-hit branch: the file exists and is loaded
BuildHit ==
    /\ InLoop
    /\ os_path_exists(cache, lie_name)
    /\ IF load_raises(cache[lie_name])
       THEN /\ Raise
            /\ lastCall' = [path |-> "hit", name |-> lie_name, outcome |-> "raised",
                            rebuilt |-> FALSE]
            /\ UNCHANGED <<lastRet, callsSince>>
       ELSE /\ subgraphs' = Put(subgraphs, lie_name, pickle_load(cache[lie_name]))
            /\ idx' = idx + 1
            /\ lastCall' = [path |-> "hit", name |-> lie_name, outcome |-> "returned",
                            rebuilt |-> FALSE]
            /\ Returned(lie_name, pickle_load(cache[lie_name]))
            /\ UNCHANGED <<pc, stdout, data, road_network_nodes>>
    /\ UNCHANGED <<layers, cache, lastCached, nodes_df, workers>>

road_rows(sg) == SelectSeq(sg.nodes, LAMBDA r : r.type = "road")

\* the cache-miss branch, the file written to its end
BuildMiss ==
    /\ InLoop
    /\ ~os_path_exists(cache, lie_name)
    /\ LET sg == build_subgraph(data, idx)
       IN  /\ subgraphs' = Put(subgraphs, lie_name, sg)
           /\ road_network_nodes' = road_network_nodes \o road_rows(sg)
           /\ cache' = [cache EXCEPT ![lie_name] = pickle_dump(sg)]
           /\ Returned(lie_name, sg)
           /\ lastCached' = [lastCached EXCEPT ![lie_name] = sg]
           /\ lastCall' = [path |-> "miss", name |-> lie_name, outcome |-> "returned",
                           rebuilt |-> lastCached[lie_name] # NoSubgraph]
    /\ idx' = idx + 1
    /\ UNCHANGED <<layers, pc, data, stdout, nodes_df, workers>>

\* the cache-miss branch, open(subgraph_path, 'wb') raising: no file is made
BuildMissOpenFails ==
    /\ InLoop
    /\ ~os_path_exists(cache, lie_name)
    /\ Raise
    /\ lastCall' = [path |-> "miss", name |-> lie_name, outcome |-> "raised",
                    rebuilt |-> FALSE]
    /\ UNCHANGED <<layers, cache, lastRet, callsSince, lastCached, nodes_df, workers>>

\* the cache-miss branch, pickle.dump raising part-way: the with block closes
\* the file and leaves what was written
BuildMissDumpFails ==
    /\ InLoop
    /\ ~os_path_exists(cache, lie_name)
    /\ \E n \in 0..Min(MaxWritten, Len(build_subgraph(data, idx).nodes)) :
          cache' = [cache EXCEPT ![lie_name] = truncated_dump(build_subgraph(data, idx), n)]
    /\ Raise
    /\ lastCall' = [path |-> "miss", name |-> lie_name, outcome |-> "raised",
                    rebuilt |-> FALSE]
    /\ UNCHANGED <<layers, lastRet, callsSince, lastCached, nodes_df, workers>>

\* return subgraphs, road_network_nodes
BuildReturn ==
    /\ pc = "build"
    /\ idx > Len(data.neighborhoods)
    /\ pc' = "score"
    /\ stdout' = "Stage 3: Calculating rule-based walkability scores..."
    /\ UNCHANGED <<layers, cache, data, idx, subgraphs, road_network_nodes,
                   lastCall, lastRet, callsSince, lastCached, nodes_df, workers>>

\* Stage 3
CalculateWalkability ==
    /\ pc = "score"
    /\ subgraphs' = calculate_walkability(subgraphs)
    /\ data' = [data EXCEPT !.neighborhoods =
                   propagate_scores(@, calculate_walkability(subgraphs))]
    /\ pc' = "gnn"
    /\ stdout' = "Stage 4: Training GNN model..."
    /\ UNCHANGED <<layers, cache, idx, road_network_nodes,
                   lastCall, lastRet, callsSince, lastCached, nodes_df, workers>>

\* Stage 4: prepare_gnn_data, train_gnn_model, predict_walkability
GnnStage ==
    /\ pc = "gnn"
    /\ \E model \in GnnModels : subgraphs' = predict_walkability(subgraphs, model)
    /\ pc' = "map"
    /\ stdout' = "Stage 5: Generating interactive Kepler.gl map..."
    /\ UNCHANGED <<layers, cache, data, idx, road_network_nodes,
                   lastCall, lastRet, callsSince, lastCached, nodes_df, workers>>

\* Stage 5 and the last print of the try block; main() returns and its
\* locals are gone
CreateMap ==
    /\ pc = "map"
    /\ pc' = "done"
    /\ stdout' = "Analysis completed successfully."
    /\ data' = NoData
    /\ subgraphs' = EmptyDict
    /\ road_network_nodes' = <<>>
    /\ idx' = 0
    /\ UNCHANGED <<layers, cache, lastCall, lastRet, callsSince, lastCached, nodes_df, workers>>

\* a stage after build_graph raises: main()'s except clause
StageRaises ==
    /\ pc \in {"score", "gnn", "map"}
    /\ Raise
    /\ UNCHANGED <<layers, cache, lastCall, lastRet, callsSince, lastCached, nodes_df, workers>>

\* between two runs the input files are replaced
ChangeLayers ==
    /\ BetweenRuns
    /\ layers' \in LayerWorlds \ {layers}
    /\ lastCached' = [n \in Names |-> NoSubgraph]
    /\ UNCHANGED <<cache, pc, data, idx, subgraphs, road_network_nodes, stdout,
                   lastCall, lastRet, callsSince, nodes_df, workers>>

\* between two runs a cache file is removed
DeleteCache ==
    /\ BetweenRuns
    /\ \E n \in Names :
          /\ cache[n].exists
          /\ cache' = [cache EXCEPT ![n] = NoFile]
          /\ callsSince' = [callsSince EXCEPT ![n] = 0]
          /\ lastRet' = [lastRet EXCEPT ![n] = NoSubgraph]
    /\ UNCHANGED <<layers, pc, data, idx, subgraphs, road_network_nodes, stdout,
                   lastCall, lastCached, nodes_df, workers>>

Next ==
    \/ StartRun
    \/ BuildHit
    \/ BuildMiss
    \/ BuildMissOpenFails
    \/ BuildMissDumpFails
    \/ BuildReturn
    \/ CalculateWalkability
    \/ GnnStage
    \/ CreateMap
    \/ StageRaises
    \/ ChangeLayers
    \/ DeleteCache

Spec == Init /\ [][Next]_vars

-----------------------------------------------------------------------------
(* Construction specification: one neighborhood, one feature per layer at   *)
(* every position of a grid around the buffer, one run on an empty cache.   *)

Coords == {100 * i : i \in 0..MaxCoord}

\* the neighborhood [300, 400]: its buffer is [100, 600]
GeomNeighborhood == NbhdRow("A", 1000, 100, 0, 0, 0, 300, 400)

\* the tree is at x and the transit stop at the mirrored position
GeomWorlds ==
    { [neighborhoods |-> << GeomNeighborhood >>,
       buildings |-> << Building("house", 80, b[1], b[2], TRUE) >>,
       roads     |-> << Road("residential", gt, r[1], r[2]) >>,
       trees     |-> << Tree(x) >>,
       transit   |-> << Transit("bus_stop", 100 * MaxCoord - x) >>] :
      b \in {c \in Coords \X Coords : c[1] < c[2]},
      r \in {c \in Coords \X Coords : c[1] < c[2]},
      gt \in {"LineString", "MultiLineString"},
      x \in Coords }

InitBuild ==
    /\ layers \in GeomWorlds
    /\ cache = [n \in Names |-> NoFile]
    /\ pc = "idle"
    /\ data = NoData
    /\ idx = 0
    /\ subgraphs = EmptyDict
    /\ road_network_nodes = <<>>
    /\ stdout = ""
    /\ lastCall = NoCall
    /\ lastRet = [n \in Names |-> NoSubgraph]
    /\ callsSince = [n \in Names |-> 0]
    /\ lastCached = [n \in Names |-> NoSubgraph]
    /\ nodes_df = <<>>
    /\ workers = <<>>

NextBuild ==
    \/ StartRun
    \/ BuildMiss

SpecBuild == InitBuild /\ [][NextBuild]_vars

-----------------------------------------------------------------------------
(* Scorer specification: compute_walkability_scores applied to a node table *)
(* holding one neighborhood node and one building node, or the building     *)
(* node alone.                                                              *)

Percents == {0, 50, 100}
Ndvis == {-10, 0, 5, 10, NaN}
TreeCounts == {50 * k : k \in 0..MaxTreeK}
TransitCounts == {10 * k : k \in 0..MaxTransitK}

Attrs(res, com, edu, ndvi, trees, transit) ==
    [LIE_NAME |-> "A", population |-> 1000,
     land_use_residential_percent |-> res, land_use_commercial_percent |-> com,
     land_use_education_percent |-> edu, ndvi_mean |-> ndvi,
     tree_count |-> trees, transit_count |-> transit]

BuildingNode ==
    [vertex |-> <<"building", 0>>, type |-> "building",
     building_type |-> "house", area_m2 |-> 80]

ScoreTables ==
    { << neighborhood_node(Attrs(res, com, edu, ndvi, t, s)), BuildingNode >> :
        res \in Percents, com \in Percents, edu \in {0, 100}, ndvi \in Ndvis,
        t \in TreeCounts, s \in TransitCounts }
    \cup { << BuildingNode >> }

NoLayers == [neighborhoods |-> <<>>, buildings |-> <<>>, roads |-> <<>>,
             trees |-> <<>>, transit |-> <<>>]

InitScore ==
    /\ layers = NoLayers
    /\ cache = [n \in Names |-> NoFile]
    /\ pc = "scorer"
    /\ data = NoData
    /\ idx = 0
    /\ subgraphs = EmptyDict
    /\ road_network_nodes = <<>>
    /\ stdout = ""
    /\ lastCall = NoCall
    /\ lastRet = [n \in Names |-> NoSubgraph]
    /\ callsSince = [n \in Names |-> 0]
    /\ lastCached = [n \in Names |-> NoSubgraph]
    /\ nodes_df \in ScoreTables
    /\ workers = <<>>

\* nodes_df = compute_walkability_scores(nodes_df)
ScoreTable ==
    /\ pc = "scorer"
    /\ nodes_df' = compute_walkability_scores(nodes_df)
    /\ pc' = "scored"
    /\ UNCHANGED <<layers, cache, data, idx, subgraphs, road_network_nodes, stdout,
                   lastCall, lastRet, callsSince, lastCached, workers>>

NextScore == ScoreTable

SpecScore == InitScore /\ [][NextScore]_vars

-----------------------------------------------------------------------------
(* Properties of the cache (specification Spec). *)

ScoreColumns == {"walkability_rule", "walkability_gnn"}

\* C1: a loop iteration for a name whose earlier iteration returned, with the
\* cache file not removed in between, takes the cache-hit branch, returns the
\* same node and edge tables as that earlier iteration, and leaves the cache
\* and the list of emitted road nodes as they were.
C1_Idempotent ==
    [][ \A n \in Names :
          (InLoop /\ lie_name = n /\ callsSince[n] >= 1)
          => /\ lastCall'.path = "hit"
             /\ lastCall'.outcome = "returned"
             /\ subgraphs'[n] = lastRet[n]
             /\ lastRet'[n] = lastRet[n]
             /\ cache' = cache
             /\ road_network_nodes' = road_network_nodes ]_vars

C1_Witness ==
    \E n \in Names :
        /\ callsSince[n] = 2
        /\ lastCall = [path |-> "hit", name |-> n, outcome |-> "returned",
                       rebuilt |-> FALSE]
        /\ n \in DOMAIN subgraphs
        /\ subgraphs[n] = lastRet[n]
        /\ Len(subgraphs[n].nodes) > 1

\* C2: an iteration that finds a file for its name never reconstructs: it
\* takes the hit branch, leaves the cache alone, and what it returns is the
\* node and edge tables stored in the file, whatever the layers now hold.
C2_FileIsSoleSignal ==
    [][ (InLoop /\ cache[lie_name].exists)
        => /\ lastCall'.path = "hit"
           /\ cache' = cache
           /\ (lastCall'.outcome = "returned"
               => subgraphs'[lie_name] = [nodes |-> cache[lie_name].rows,
                                          edges |-> cache[lie_name].edges]) ]_vars

\* a hit that returned a subgraph the current layers would not produce
C2_Witness ==
    /\ pc = "build"
    /\ lastCall.path = "hit"
    /\ lastCall.outcome = "returned"
    /\ idx >= 2
    /\ data.neighborhoods[idx - 1].LIE_NAME = lastCall.name
    /\ subgraphs[lastCall.name] # build_subgraph(data, idx - 1)
    /\ subgraphs[lastCall.name].nodes = cache[lastCall.name].rows

NoScoreColumn(rows) ==
    \A i \in 1..Len(rows) : DOMAIN rows[i] \cap ScoreColumns = {}

BothScoreColumns(rows) ==
    \A i \in 1..Len(rows) : ScoreColumns \subseteq DOMAIN rows[i]

\* C3: no row stored in a cache file has a score column; the stages after
\* build_graph never change a cache file; the subgraphs build_graph returns
\* have no score column and those leaving the GNN stage have both.
C3_CacheIsPreScoring ==
    [][ /\ \A n \in Names : NoScoreColumn(cache'[n].rows)
        /\ (pc \in {"score", "gnn", "map"} => cache' = cache)
        /\ (pc' = "score" => \A n \in DOMAIN subgraphs' : NoScoreColumn(subgraphs'[n].nodes))
        /\ (pc' = "map" => \A n \in DOMAIN subgraphs' : BothScoreColumns(subgraphs'[n].nodes))
      ]_vars

\* a subgraph loaded from its file has been scored, and the file has not
C3_Witness ==
    /\ pc = "map"
    /\ lastCall.path = "hit"
    /\ lastCall.name \in DOMAIN subgraphs
    /\ BothScoreColumns(subgraphs[lastCall.name].nodes)
    /\ cache[lastCall.name].complete
    /\ NoScoreColumn(cache[lastCall.name].rows)

\* C4: with the layers as they were when a name's subgraph was built and
\* cached, an iteration that finds the file gone builds a node table equal to
\* that one.
C4_RebuildReproduces ==
    [][ (InLoop /\ ~cache[lie_name].exists /\ lastCached[lie_name] # NoSubgraph
         /\ lastCall'.outcome = "returned")
        => /\ lastCall'.path = "miss"
           /\ subgraphs'[lie_name].nodes = lastCached[lie_name].nodes
           /\ cache'[lie_name].rows = lastCached[lie_name].nodes ]_vars

C4_Witness ==
    /\ lastCall.path = "miss"
    /\ lastCall.outcome = "returned"
    /\ lastCall.rebuilt
    /\ subgraphs[lastCall.name].nodes = lastCached[lastCall.name].nodes
    /\ Len(subgraphs[lastCall.name].nodes) > 1

NamesOf(neigh) == {neigh[i].LIE_NAME : i \in 1..Len(neigh)}

OneNeighborhoodNodeFirst(rows) ==
    /\ Len(rows) >= 1
    /\ rows[1].type = "neighborhood"
    /\ \A i \in 2..Len(rows) : rows[i].type # "neighborhood"

\* C5 as stated: build_graph returns as many subgraphs as the table has rows,
\* each with one neighborhood node, its first row.
C5_OnePerRow ==
    pc = "score"
    => /\ Cardinality(DOMAIN subgraphs) = Len(data.neighborhoods)
       /\ \A n \in DOMAIN subgraphs : OneNeighborhoodNodeFirst(subgraphs[n].nodes)

\* C5 (amended): build_graph returns one subgraph per distinct LIE_NAME of the
\* table, which is one per row when the names are distinct, and each has
\* exactly one neighborhood node, its first row.
C5_OnePerName ==
    pc = "score"
    => /\ DOMAIN subgraphs = NamesOf(data.neighborhoods)
       /\ (Cardinality(NamesOf(data.neighborhoods)) = Len(data.neighborhoods)
           => Cardinality(DOMAIN subgraphs) = Len(data.neighborhoods))
       /\ \A n \in DOMAIN subgraphs : OneNeighborhoodNodeFirst(subgraphs[n].nodes)

C5_Witness ==
    /\ pc = "score"
    /\ Len(data.neighborhoods) = 2
    /\ Cardinality(DOMAIN subgraphs) = 2
    /\ \A n \in DOMAIN subgraphs :
          /\ OneNeighborhoodNodeFirst(subgraphs[n].nodes)
          /\ Len(subgraphs[n].nodes) > 1

-----------------------------------------------------------------------------
(* Buffer selection (specification SpecBuild). *)

\* the first iteration has built the subgraph of neighborhood A
Built == pc = "build" /\ idx = 2 /\ "A" \in DOMAIN subgraphs

BufLo == data.neighborhoods[1].geometry.lo - 200
BufHi == data.neighborhoods[1].geometry.hi + 200

\* every point of g lies in the buffer
Contained(g) == BufLo <= g.lo /\ g.hi <= BufHi
\* g has a point in the buffer and a point outside it
Crosses(g) == (g.lo < BufLo /\ BufLo <= g.hi) \/ (g.lo <= BufHi /\ BufHi < g.hi)
\* the point g lies strictly inside the buffer
Inside(g) == BufLo < g.lo /\ g.lo < BufHi

HasNode(kind, k) ==
    \E i \in 1..Len(subgraphs["A"].nodes) :
        /\ subgraphs["A"].nodes[i].type = kind
        /\ subgraphs["A"].nodes[i].vertex[Len(subgraphs["A"].nodes[i].vertex)] = k

HasRoadNode(end, k) ==
    \E i \in 1..Len(subgraphs["A"].nodes) :
        /\ subgraphs["A"].nodes[i].type = "road"
        /\ subgraphs["A"].nodes[i].vertex = <<"road", end, k>>

BuildingsByContainment ==
    \A k \in 1..Len(data.buildings) :
        ~Contained(data.buildings[k].geometry) => ~HasNode("building", k - 1)

\* C6 as stated: a building not contained in the buffer has no node, and a
\* road that crosses the buffer boundary has its nodes.
C6_AnyCrossingRoad ==
    Built
    => /\ BuildingsByContainment
       /\ \A k \in 1..Len(data.roads) :
             Crosses(data.roads[k].geometry)
             => HasRoadNode("start", k - 1) /\ HasRoadNode("end", k - 1)

\* C6 (amended): a building not contained in the buffer has no node; a tree
\* or transit point outside the buffer or on its boundary has no node; a
\* LineString road that crosses the buffer boundary has both its endpoint
\* nodes; a road that is not a LineString has none.
C6_LineStringCrossingRoad ==
    Built
    => /\ BuildingsByContainment
       /\ \A k \in 1..Len(data.trees) :
             ~Inside(data.trees[k].geometry) => ~HasNode("tree", k - 1)
       /\ \A k \in 1..Len(data.transit) :
             ~Inside(data.transit[k].geometry) => ~HasNode("transit", k - 1)
       /\ \A k \in 1..Len(data.roads) :
             /\ (Crosses(data.roads[k].geometry)
                 /\ data.roads[k].geom_type = "LineString")
                => HasRoadNode("start", k - 1) /\ HasRoadNode("end", k - 1)
             /\ data.roads[k].geom_type # "LineString"
                => ~HasRoadNode("start", k - 1) /\ ~HasRoadNode("end", k - 1)

\* a building touching the buffer from outside is left out while a road
\* crossing the same boundary is in
C6_Witness ==
    /\ Built
    /\ data.buildings[1].geometry.hi = BufLo
    /\ ~HasNode("building", 0)
    /\ Crosses(data.roads[1].geometry)
    /\ ~Contained(data.roads[1].geometry)
    /\ HasRoadNode("start", 0)
    /\ HasRoadNode("end", 0)
    /\ data.trees[1].geometry.lo = BufLo
    /\ ~HasNode("tree", 0)

-----------------------------------------------------------------------------
(* The rule-based score (specification SpecScore), in thousandths. *)

Scored == pc = "scored"

NeighborhoodRows == {i \in 1..Len(nodes_df) : nodes_df[i].type = "neighborhood"}

Inputs(row) ==
    << row.land_use_residential_percent, row.land_use_commercial_percent,
       row.land_use_education_percent, row.ndvi_mean, row.tree_count,
       row.transit_count >>

\* min(1.0, (0.4 res + 0.3 com + 0.2 edu) / 100 + 0.4 (0.5 ndvi)
\*           + 0.2 min(trees / 100, 1) + 0.2 min(transit / 20, 1))
ClosedForm(in) ==
    LET ndvi == IF in[4] = NaN THEN 0 ELSE in[4]
        sum  == 4 * in[1] + 3 * in[2] + 2 * in[3] + 20 * ndvi
                + (IF in[5] >= 100 THEN 200 ELSE 2 * in[5])
                + (IF in[6] >= 20 THEN 200 ELSE 10 * in[6])
    IN  IF sum > 1000 THEN 1000 ELSE sum

\* C7: the neighborhood row's walkability_rule is the closed form, a missing
\* ndvi read as 0; it is 0.4 for (100, 0, 0, ndvi 0, 0, 0) and 0.6 for
\* (0, 0, 0, ndvi 1.0, 200, 40), never above 1.0, and below 0 for
\* (0, 0, 0, ndvi -1.0, 0, 0); the other rows get 0.
C7_ScoreFormula ==
    Scored
    => /\ \A i \in NeighborhoodRows :
             /\ nodes_df[i].walkability_rule = ClosedForm(Inputs(nodes_df[i]))
             /\ nodes_df[i].walkability_rule <= 1000
             /\ Inputs(nodes_df[i]) = <<100, 0, 0, 0, 0, 0>>
                => nodes_df[i].walkability_rule = 400
             /\ Inputs(nodes_df[i]) = <<0, 0, 0, 10, 200, 40>>
                => nodes_df[i].walkability_rule = 600
             /\ Inputs(nodes_df[i]) = <<0, 0, 0, -10, 0, 0>>
                => nodes_df[i].walkability_rule < 0
       /\ \A i \in (1..Len(nodes_df)) \ NeighborhoodRows :
             nodes_df[i].walkability_rule = 0

\* a score below 0
C7_Witness ==
    /\ Scored
    /\ \E i \in NeighborhoodRows :
          /\ nodes_df[i].ndvi_mean = -10
          /\ nodes_df[i].walkability_rule < 0

\* C8: with the other attributes as they are, no larger tree_count gives a
\* smaller score, and from a tree_count of 100 on every larger one gives the
\* same score.
C8_TreeCountMonotone ==
    Scored
    => \A i \in NeighborhoodRows : \A t \in TreeCounts :
          t >= nodes_df[i].tree_count
          => /\ walkability([nodes_df[i] EXCEPT !.tree_count = t])
                >= nodes_df[i].walkability_rule
             /\ nodes_df[i].tree_count >= 100
                => walkability([nodes_df[i] EXCEPT !.tree_count = t])
                   = nodes_df[i].walkability_rule

\* a score at the cap of the tree term and below the upper clamp: fewer trees
\* give less, more trees give the same
C8_Witness ==
    /\ Scored
    /\ \E i \in NeighborhoodRows :
          /\ nodes_df[i].tree_count = 100
          /\ nodes_df[i].walkability_rule < 1000
          /\ walkability([nodes_df[i] EXCEPT !.tree_count = 50])
             < nodes_df[i].walkability_rule
          /\ walkability([nodes_df[i] EXCEPT !.tree_count = 200])
             = nodes_df[i].walkability_rule

-----------------------------------------------------------------------------
(* Failures (specification Spec). *)

WriteFailed == lastCall.path = "miss" /\ lastCall.outcome = "raised"

\* C9 as stated: when the write of a cache file fails, the subgraph just
\* built is in the in-memory result, the failure is reported and the loop
\* goes on.
C9_WriteFailureIsAbsorbed ==
    WriteFailed
    => /\ lastCall.name \in DOMAIN subgraphs
       /\ pc = "build"

\* C10 as stated: after a failed run the failure has been reported and every
\* cache file that exists can be loaded.
C10_NoPartialCache ==
    pc = "failed"
    => /\ stdout = "Error during analysis"
       /\ \A n \in Names : cache[n].exists => ~load_raises(cache[n])

-----------------------------------------------------------------------------
(* Race specification: two workers each run one iteration of build_graph's  *)
(* loop for the same neighborhood over one SUBGRAPH_DIR, step by step and   *)
(* in any interleaving.  A dump reaches the file one row at a time, then    *)
(* the end of the pickle; every writer keeps its own file offset.           *)

Workers == {1, 2}

Max(a, b) == IF a >= b THEN a ELSE b

RaceWorlds ==
    { [neighborhoods |-> << n >>, buildings |-> f.buildings, roads |-> f.roads,
       trees |-> f.trees, transit |-> f.transit] :
      n \in NbhdPool, f \in FeaturePool }

Worker(at) ==
    [pc |-> at, subgraph_data |-> NoSubgraph, offset |-> 0, loaded |-> NoSubgraph]

\* open(subgraph_path, 'wb'): the file exists from now on and is empty
open_wb == [exists |-> TRUE, complete |-> FALSE, rows |-> <<>>, edges |-> None]

\* one write of pickle.dump at the writer's offset: row k of the node table
write_row(file, k, row) ==
    [file EXCEPT !.exists = TRUE,
                 !.rows = [i \in 1..Max(Len(file.rows), k) |->
                              IF i = k THEN row
                              ELSE IF i <= Len(file.rows) THEN file.rows[i]
                              ELSE Hole]]

\* the last write of pickle.dump, after the n rows: the edges and the end of
\* the pickle; the with block closes the file
write_end(file, sg) ==
    [exists |-> TRUE, complete |-> TRUE,
     rows |-> [i \in 1..Max(Len(file.rows), Len(sg.nodes)) |->
                  IF i <= Len(file.rows) THEN file.rows[i] ELSE Hole],
     edges |-> sg.edges]

InitRace ==
    /\ layers \in RaceWorlds
    /\ cache = [n \in Names |-> NoFile]
    /\ pc = "race"
    /\ data = load_and_prepare_data(layers)
    /\ idx = 1
    /\ subgraphs = EmptyDict
    /\ road_network_nodes = <<>>
    /\ stdout = "Stage 2: Building graph network..."
    /\ lastCall = NoCall
    /\ lastRet = [n \in Names |-> NoSubgraph]
    /\ callsSince = [n \in Names |-> 0]
    /\ lastCached = [n \in Names |-> NoSubgraph]
    /\ nodes_df = <<>>
    /\ workers = [w \in Workers |-> Worker("exists")]

RaceUnchanged ==
    UNCHANGED <<layers, pc, data, idx, subgraphs, road_network_nodes, stdout,
                lastCall, lastRet, callsSince, lastCached, nodes_df>>

\* if os.path.exists(subgraph_path):
WorkerExists(w) ==
    /\ pc = "race"
    /\ workers[w].pc = "exists"
    /\ workers' = [workers EXCEPT ![w].pc =
                      IF os_path_exists(cache, lie_name) THEN "load" ELSE "build"]
    /\ UNCHANGED cache
    /\ RaceUnchanged

\* with open(subgraph_path, 'rb') as f: subgraphs[lie_name] = pickle.load(f)
WorkerLoad(w) ==
    /\ pc = "race"
    /\ workers[w].pc = "load"
    /\ workers' = [workers EXCEPT ![w] =
                      IF load_raises(cache[lie_name])
                      THEN [@ EXCEPT !.pc = "raised"]
                      ELSE [@ EXCEPT !.pc = "returned",
                                     !.loaded = pickle_load(cache[lie_name])]]
    /\ UNCHANGED cache
    /\ RaceUnchanged

\* the construction of subgraph_data
WorkerBuild(w) ==
    /\ pc = "race"
    /\ workers[w].pc = "build"
    /\ workers' = [workers EXCEPT ![w].pc = "open",
                                  ![w].subgraph_data = build_subgraph(data, idx)]
    /\ UNCHANGED cache
    /\ RaceUnchanged

\* with open(subgraph_path, 'wb') as f:
WorkerOpen(w) ==
    /\ pc = "race"
    /\ workers[w].pc = "open"
    /\ cache' = [cache EXCEPT ![lie_name] = open_wb]
    /\ workers' = [workers EXCEPT ![w].pc = "dump", ![w].offset = 0]
    /\ RaceUnchanged

\* pickle.dump(subgraph_data, f), one write at a time
WorkerDump(w) ==
    /\ pc = "race"
    /\ workers[w].pc = "dump"
    /\ LET sg == workers[w].subgraph_data
           k  == workers[w].offset + 1
       IN  IF k <= Len(sg.nodes)
           THEN /\ cache' = [cache EXCEPT ![lie_name] = write_row(@, k, sg.nodes[k])]
                /\ workers' = [workers EXCEPT ![w].offset = k]
           ELSE /\ cache' = [cache EXCEPT ![lie_name] = write_end(@, sg)]
                /\ workers' = [workers EXCEPT ![w].pc = "returned", ![w].offset = k]
    /\ RaceUnchanged

NextRace ==
    \E w \in Workers :
        \/ WorkerExists(w)
        \/ WorkerLoad(w)
        \/ WorkerBuild(w)
        \/ WorkerOpen(w)
        \/ WorkerDump(w)

SpecRace == InitRace /\ [][NextRace]_vars

-----------------------------------------------------------------------------
(* The cache file under two racing builders (specification SpecRace). *)

Finished(w) == workers[w].pc \in {"returned", "raised"}

\* no worker's pickle.load met a file that another worker was still writing
NoPartialLoad == \A w \in Workers : workers[w].pc # "raised"

\* once both workers are through, the file is one complete dump of the subgraph
OneCompleteFile ==
    (\A w \in Workers : Finished(w))
    => cache[lie_name] = pickle_dump(build_subgraph(data, idx))

\* C11: two workers running the exists-check, build, open-for-write and dump
\* steps for the same uncached neighborhood never load a partially written
\* file on the cache-hit path, and once both have finished the file holds one
\* complete subgraph
C11_RaceNeverCorrupts ==
    pc = "race" => (NoPartialLoad /\ OneCompleteFile)

-----------------------------------------------------------------------------
(* Enrichment specification: the tree_count / transit_count loop of         *)
(* load_and_prepare_data, one iteration at a time.  A row of the stored     *)
(* layer may be invalid (the validator drops it), and the geometry that     *)
(* neighborhoods_geo.iloc[idx] hands back for a kept row may be invalid.    *)

EnrichGeoms == { <<1000, 1200>>, <<1100, 1300>> }

EnrichRows ==
    { [NbhdRow("A", 1000, 100, 0, 0, 0, g[1], g[2])
          EXCEPT !.valid = v, !.geo_valid = gv] :
      g \in EnrichGeoms, v \in BOOLEAN, gv \in BOOLEAN }

TreeLayers ==
    { <<>>,
      << Tree(1100) >>,
      << Land("grass", 1050), Tree(1150), Tree(1200), Tree(1300) >> }

TransitLayers ==
    { << Transit("bus_stop", 1150) >>,
      << Transit("station", 1050), Transit("stop_position", 1250),
         Transit("bus_stop", 1100) >> }

EnrichWorlds ==
    { [neighborhoods |-> n, buildings |-> <<>>, roads |-> <<>>,
       trees |-> t, transit |-> s] :
      n \in [1..NumRows -> EnrichRows], t \in TreeLayers, s \in TransitLayers }

\* load_and_prepare_data at the head of its loop
InitEnrich ==
    /\ layers \in EnrichWorlds
    /\ cache = [n \in Names |-> NoFile]
    /\ pc = "enrich"
    /\ data = prepared(layers)
    /\ idx = 1
    /\ subgraphs = EmptyDict
    /\ road_network_nodes = <<>>
    /\ stdout = ""
    /\ lastCall = NoCall
    /\ lastRet = [n \in Names |-> NoSubgraph]
    /\ callsSince = [n \in Names |-> 0]
    /\ lastCached = [n \in Names |-> NoSubgraph]
    /\ nodes_df = <<>>
    /\ workers = <<>>

\* one iteration of "for idx in range(len(neighborhoods_gdf))"
EnrichStep ==
    /\ pc = "enrich"
    /\ idx <= Len(data.neighborhoods)
    /\ data' = [data EXCEPT !.neighborhoods =
                   enrich_step(@, idx, data.trees, data.transit)]
    /\ stdout' = IF data.neighborhoods[idx].geo_valid
                 THEN stdout
                 ELSE "Warning: Invalid geometry"
    /\ idx' = idx + 1
    /\ UNCHANGED <<layers, cache, pc, subgraphs, road_network_nodes,
                   lastCall, lastRet, callsSince, lastCached, nodes_df, workers>>

\* the loop is over: return { 'neighborhoods': neighborhoods_gdf, ... }
EnrichReturn ==
    /\ pc = "enrich"
    /\ idx > Len(data.neighborhoods)
    /\ pc' = "loaded"
    /\ UNCHANGED <<layers, cache, data, idx, subgraphs, road_network_nodes, stdout,
                   lastCall, lastRet, callsSince, lastCached, nodes_df, workers>>

NextEnrich ==
    \/ EnrichStep
    \/ EnrichReturn

SpecEnrich == InitEnrich /\ [][NextEnrich]_vars

-----------------------------------------------------------------------------
(* Attribute enrichment (specification SpecEnrich). *)

\* the stored tree points the point-in-polygon predicate places inside g
TreesInside(g) ==
    Cardinality({k \in 1..Len(layers.trees) :
                    /\ layers.trees[k].valid
                    /\ layers.trees[k].subtype = "tree"
                    /\ point_in_polygon(layers.trees[k].geometry, g)})

\* the stored transit points the point-in-polygon predicate places inside g
TransitInside(g) ==
    Cardinality({k \in 1..Len(layers.transit) :
                    /\ layers.transit[k].valid
                    /\ layers.transit[k].class \in {"stop_position", "bus_stop"}
                    /\ layers.transit[k].geometry.lo = layers.transit[k].geometry.hi
                    /\ point_in_polygon(layers.transit[k].geometry, g)})

\* what the loop returns is what load_and_prepare_data computes
EnrichLoopIsEnrich == pc = "loaded" => data = load_and_prepare_data(layers)

\* C12: an iteration of the enrichment loop at index i leaves tree_count and
\* transit_count of row i at 0 when the geometry at i is invalid and goes on
\* with index i + 1 without aborting; otherwise it sets them to the number of
\* tree points and transit points the point-in-polygon predicate places
\* inside neighborhood i; no other row's counts change
C12_EnrichmentIteration ==
    [][ (pc = "enrich" /\ idx <= Len(data.neighborhoods))
        => /\ pc' = "enrich"
           /\ idx' = idx + 1
           /\ Len(data'.neighborhoods) = Len(data.neighborhoods)
           /\ LET old == data.neighborhoods[idx]
                  new == data'.neighborhoods[idx]
              IN  IF old.geo_valid
                  THEN /\ new.tree_count = TreesInside(old.geometry)
                       /\ new.transit_count = TransitInside(old.geometry)
                  ELSE /\ new.tree_count = 0
                       /\ new.transit_count = 0
           /\ \A j \in (1..Len(data.neighborhoods)) \ {idx} :
                 /\ data'.neighborhoods[j].tree_count = data.neighborhoods[j].tree_count
                 /\ data'.neighborhoods[j].transit_count
                    = data.neighborhoods[j].transit_count
      ]_vars

\* the loop has passed an invalid first neighborhood that holds a tree and a
\* stop, left its counts at 0, and counted two trees and a stop for the second
C12_Witness ==
    /\ pc = "enrich"
    /\ idx = 3
    /\ ~data.neighborhoods[1].geo_valid
    /\ TreesInside(data.neighborhoods[1].geometry) > 0
    /\ TransitInside(data.neighborhoods[1].geometry) > 0
    /\ data.neighborhoods[1].tree_count = 0
    /\ data.neighborhoods[1].transit_count = 0
    /\ data.neighborhoods[2].geo_valid
    /\ data.neighborhoods[2].tree_count = 2
    /\ data.neighborhoods[2].transit_count = 1
    /\ stdout = "Warning: Invalid geometry"

-----------------------------------------------------------------------------
(* Road specification: one neighborhood and a road layer of NumRoads stored *)
(* rows, each valid or not, a LineString or not, outside the buffer, across *)
(* its boundary or inside it; one run on an empty cache.                    *)

RoadClasses == <<"primary", "secondary", "tertiary", "residential", "service">>

\* the stored rows have pairwise different classes
RoadClass(k) == RoadClasses[((k - 1) % Len(RoadClasses)) + 1]

\* the neighborhood [400, 500]: its buffer is [200, 700]
RoadsNeighborhood == NbhdRow("A", 1000, 100, 0, 0, 0, 400, 500)

\* outside the buffer, across its boundary, inside it: three different lengths
RoadShapes == { <<0, 100>>, <<100, 300>>, <<300, 600>> }

\* what varies in a stored row: its geometry type, its shape, its validity
RoadChoices == {"LineString", "MultiLineString"} \X RoadShapes \X BOOLEAN

RoadRow(k, c) == [Road(RoadClass(k), c[1], c[2][1], c[2][2]) EXCEPT !.valid = c[3]]

RoadWorlds ==
    { [neighborhoods |-> << RoadsNeighborhood >>, buildings |-> <<>>,
       roads |-> [k \in 1..NumRoads |-> RoadRow(k, c[k])],
       trees |-> <<>>, transit |-> <<>>] :
      c \in [1..NumRoads -> RoadChoices] }

InitRoads ==
    /\ layers \in RoadWorlds
    /\ cache = [n \in Names |-> NoFile]
    /\ pc = "idle"
    /\ data = NoData
    /\ idx = 0
    /\ subgraphs = EmptyDict
    /\ road_network_nodes = <<>>
    /\ stdout = ""
    /\ lastCall = NoCall
    /\ lastRet = [n \in Names |-> NoSubgraph]
    /\ callsSince = [n \in Names |-> 0]
    /\ lastCached = [n \in Names |-> NoSubgraph]
    /\ nodes_df = <<>>
    /\ workers = <<>>

NextRoads ==
    \/ StartRun
    \/ BuildMiss

SpecRoads == InitRoads /\ [][NextRoads]_vars

-----------------------------------------------------------------------------
(* Road nodes of a fresh subgraph (specification SpecRoads). *)

\* the row index the validator gives the stored road j: the valid rows before it
DenseIndex(j) == Cardinality({i \in 1..(j - 1) : layers.roads[i].valid})

\* the stored road j survives validation and its geometry meets the buffer
SelectedRoad(j) ==
    /\ layers.roads[j].valid
    /\ layers.roads[j].geometry.lo <= BufHi
    /\ BufLo <= layers.roads[j].geometry.hi

\* the positions of the road nodes whose identity ends in row index r
RoadNodesAt(r) ==
    {i \in 1..Len(subgraphs["A"].nodes) :
        /\ subgraphs["A"].nodes[i].type = "road"
        /\ subgraphs["A"].nodes[i].vertex[3] = r}

\* exactly the nodes road_start_r and road_end_r, both with the class and the
\* length of the stored road j
TwoNodesOfRoad(j) ==
    LET r == DenseIndex(j)
    IN  /\ Cardinality(RoadNodesAt(r)) = 2
        /\ HasRoadNode("start", r)
        /\ HasRoadNode("end", r)
        /\ \A i \in RoadNodesAt(r) :
              /\ subgraphs["A"].nodes[i].road_class = layers.roads[j].class
              /\ subgraphs["A"].nodes[i].length_m
                 = layers.roads[j].geometry.hi - layers.roads[j].geometry.lo

\* C13 as stated: every road selected by the buffer intersection has exactly
\* two road nodes, road_start_<row_index> and road_end_<row_index>, carrying
\* the class and length_m of that road row
C13_EverySelectedRoad ==
    Built => \A j \in 1..Len(layers.roads) : SelectedRoad(j) => TwoNodesOfRoad(j)

\* C13: every LineString road selected by the buffer intersection has
\* exactly two road nodes, road_start_<row_index> and road_end_<row_index>,
\* carrying the class and length_m of that road row; a selected road that is
\* not a LineString, like a road that is not selected, has no node
C13_SelectedLineString ==
    Built =>
        \A j \in 1..Len(layers.roads) :
            /\ (SelectedRoad(j) /\ layers.roads[j].geom_type = "LineString")
               => TwoNodesOfRoad(j)
            /\ (layers.roads[j].valid
                /\ ~(SelectedRoad(j) /\ layers.roads[j].geom_type = "LineString"))
               => RoadNodesAt(DenseIndex(j)) = {}

\* the first stored road is invalid, the second lies outside the buffer and
\* the third is a selected LineString: its two nodes carry row index 1
C13_Witness ==
    /\ Built
    /\ Len(layers.roads) >= 3
    /\ ~layers.roads[1].valid
    /\ layers.roads[2].valid
    /\ ~SelectedRoad(2)
    /\ SelectedRoad(3)
    /\ layers.roads[3].geom_type = "LineString"
    /\ DenseIndex(3) = 1
    /\ TwoNodesOfRoad(3)

-----------------------------------------------------------------------------
(* First-run specification: main() run once, on an empty SUBGRAPH_DIR, up   *)
(* to the map stage or to the error that ends the run.                      *)

\* the first call of main(): nothing has written to SUBGRAPH_DIR yet
StartFirstRun ==
    /\ pc = "idle"
    /\ StartRun

NextFirstRun ==
    \/ StartFirstRun
    \/ BuildHit
    \/ BuildMiss
    \/ BuildMissOpenFails
    \/ BuildMissDumpFails
    \/ BuildReturn
    \/ CalculateWalkability
    \/ GnnStage

SpecFirstRun == Init /\ [][NextFirstRun]_vars

-----------------------------------------------------------------------------
(* Rows sharing a LIE_NAME (specification SpecFirstRun). *)

\* the rows before row i that carry its LIE_NAME
EarlierNamesakes(i) ==
    {j \in 1..(i - 1) : data.neighborhoods[j].LIE_NAME = data.neighborhoods[i].LIE_NAME}

\* the first row that carries the name n
FirstRow(n) ==
    CHOOSE i \in 1..Len(data.neighborhoods) :
        /\ data.neighborhoods[i].LIE_NAME = n
        /\ EarlierNamesakes(i) = {}

NeighborhoodAttributes ==
    {"population", "land_use_residential_percent", "land_use_commercial_percent",
     "land_use_education_percent", "ndvi_mean", "tree_count", "transit_count"}

\* the neighborhood node of sg carries the attributes of row
CarriesRow(sg, row) ==
    /\ sg.nodes[1].type = "neighborhood"
    /\ sg.nodes[1].lie_name = row.LIE_NAME
    /\ \A a \in NeighborhoodAttributes : sg.nodes[1][a] = row[a]

\* C14: build_graph started on an empty cache builds the subgraph of a
\* LIE_NAME from the first row that carries it; a later row of that name
\* finds the file written earlier in the same loop and loads it, so the
\* returned map has one entry per distinct LIE_NAME (fewer than rows when two
\* rows share a name) and the entry's neighborhood node carries the first
\* row's attributes
C14_FirstRowWins ==
    /\ (pc = "build" /\ idx > 1)
       => /\ lastCall.outcome = "returned"
          /\ lastCall.name = data.neighborhoods[idx - 1].LIE_NAME
          /\ (lastCall.path = "hit") = (EarlierNamesakes(idx - 1) # {})
    /\ pc = "score"
       => /\ DOMAIN subgraphs = NamesOf(data.neighborhoods)
          /\ ((\E i \in 1..Len(data.neighborhoods) : EarlierNamesakes(i) # {})
              => Cardinality(DOMAIN subgraphs) < Len(data.neighborhoods))
          /\ \A n \in DOMAIN subgraphs :
                CarriesRow(subgraphs[n], data.neighborhoods[FirstRow(n)])

\* two rows named A with different attributes: the one entry of the returned
\* map carries the first row's population, not the second's
C14_Witness ==
    /\ pc = "score"
    /\ Len(data.neighborhoods) >= 2
    /\ data.neighborhoods[1].LIE_NAME = "A"
    /\ data.neighborhoods[2].LIE_NAME = "A"
    /\ data.neighborhoods[1].population # data.neighborhoods[2].population
    /\ lastCall.path = "hit"
    /\ DOMAIN subgraphs = {"A"}
    /\ subgraphs["A"].nodes[1].population = data.neighborhoods[1].population
    /\ subgraphs["A"].nodes[1].population # data.neighborhoods[2].population

=============================================================================
